---- MODULE Spec2Model ----
(***************************************************************************)
(* Model of src/app.py (JAMOVI assistant, a Streamlit script).             *)
(*                                                                         *)
(* The script is re-run from top to bottom for every user event.  The      *)
(* model has one event per run: a file upload (Tab 1), an edit of the      *)
(* research question (Tab 2), a click on the analysis button (Tab 2), a    *)
(* submitted chat prompt (Tab 3) and a click on the "run Python" button    *)
(* (Tab 4).  The three generating runs each contain a copy of the same     *)
(* retry/fallback loop over candidate_models; one step of the model is     *)
(* one iteration of the inner `for attempt in range(3)` loop (one backend  *)
(* call and everything the script does until the next backend call or      *)
(* until the run has handled the loop's result).                           *)
(***************************************************************************)
EXTENDS Naturals, Sequences, FiniteSets, TLC

(***************************************************************************)
(* Bounds of the model                                                     *)
(***************************************************************************)
\* how many entries of candidate_models (in order) the model iterates over
NumModels == 2
\* a chat prompt is submitted only while Len(messages) + 2 <= MaxMsgs
MaxMsgs == 4
\* longest exception message, in words, given to the classifier harness
MaxWords == 2

(***************************************************************************)
(* Program constants                                                       *)
(***************************************************************************)
\* for attempt in range(3)
RetryBudget == 3

\* candidate_models, src/app.py:43-49
candidate_models ==
    << "gemini-2.5-flash", "gemini-2.5-pro", "gemini-2.0-flash-exp",
       "gemini-flash-latest", "gemini-pro-latest" >>

\* Python's None for the fields that otherwise hold a string
None == "None"

\* Python truthiness of an Optional[str]: None and "" are falsy
Truthy(s) == s /= None /\ s /= ""

(***************************************************************************)
(* Strings as character sequences, for the substring tests                 *)
(***************************************************************************)
Words == { "429", "Quota", "quota", "limit", "Limit", "500", "blocked" }

WordChars(w) ==
    CASE w = "429"     -> << "4", "2", "9" >>
      [] w = "Quota"   -> << "Q", "u", "o", "t", "a" >>
      [] w = "quota"   -> << "q", "u", "o", "t", "a" >>
      [] w = "limit"   -> << "l", "i", "m", "i", "t" >>
      [] w = "Limit"   -> << "L", "i", "m", "i", "t" >>
      [] w = "500"     -> << "5", "0", "0" >>
      [] w = "blocked" -> << "b", "l", "o", "c", "k", "e", "d" >>

\* An exception is modelled by the words of its message; str(e) is the
\* message: the words joined by single blanks.
RECURSIVE str(_)
str(e) ==
    IF Len(e) = 0 THEN << >>
    ELSE IF Len(e) = 1 THEN WordChars(e[1])
    ELSE WordChars(e[1]) \o << " " >> \o str(Tail(e))

\* Python's `sub in s` on strings
Contains(s, sub) ==
    \E i \in 1..(Len(s) + 1) :
        /\ i + Len(sub) - 1 <= Len(s)
        /\ SubSeq(s, i, i + Len(sub) - 1) = sub

\* "429" in err_msg or "Quota" in err_msg or "limit" in err_msg
IsRetryable(err) ==
    \/ Contains(err, WordChars("429"))
    \/ Contains(err, WordChars("Quota"))
    \/ Contains(err, WordChars("limit"))

\* the branch the except clause takes: `continue` (after time.sleep(5)) or `break`
ExceptBranch(err) == IF IsRetryable(err) THEN "continue" ELSE "break"

(***************************************************************************)
(* The backend                                                             *)
(***************************************************************************)
\* what the backend may raise during an orchestration
E429 == << "429" >>
E500 == << "500" >>
BackendErrors == { E429, E500 }
\* the ValueError raised by response.text when the response holds no text
NoTextError == << "blocked" >>
Texts == { "", "X" }

\* One backend call (GenerativeModel(m_name) + generate_content):
\*   "text"   : a response whose .text is `text`
\*   "notext" : a response object whose .text raises NoTextError
\*   "error"  : the call raises `err`
Outcomes ==
    [kind : {"text"}, text : Texts, err : { << >> }]
      \cup [kind : {"notext"}, text : {""}, err : {NoTextError}]
      \cup [kind : {"error"}, text : {""}, err : BackendErrors]

NoResponse == [kind |-> "none", text |-> ""]

(***************************************************************************)
(* Inputs                                                                  *)
(***************************************************************************)
\* uploaded files: name, parsed content, and whether pd.read_* succeeds
Files ==
    { [name |-> "a.csv",  table |-> "t1", ok |-> TRUE],
      [name |-> "a.csv",  table |-> "t2", ok |-> TRUE],
      [name |-> "b.xlsx", table |-> "t2", ok |-> TRUE],
      [name |-> "b.xlsx", table |-> "t2", ok |-> FALSE] }
Questions == { "", "q" }
Prompts == { "p" }

VARIABLES
    \* st.session_state
    curr_df, df_name, research_q, analysis_result, messages,
    \* position of the running script
    pc, mode,
    \* locals of the retry/fallback loops
    m_idx, attempt, success, last_error, err_msg,
    response, tab2_errors,
    ai_reply, chat_error_details,
    generated_code, tab4_errors,
    \* what the run displayed / executed
    st_status, st_details, executed,
    \* history: the backend calls of the run, its sleeps, the last except branch
    trace, sleeps, branch,
    \* a column of the table and the type each classifier gives it
    col, var_type, v_type,
    \* the three loops run side by side on one script of backend outcomes
    runs, script

session == << curr_df, df_name, research_q, analysis_result, messages >>
loopvars == << m_idx, attempt, success, last_error, err_msg >>
tab2vars == << response, tab2_errors >>
tab3vars == << ai_reply, chat_error_details >>
tab4vars == << generated_code, tab4_errors >>
outvars == << st_status, st_details, executed >>
histvars == << trace, sleeps, branch >>
colvars == << col, var_type, v_type >>
sidevars == << colvars, runs, script >>
vars == << session, pc, mode, loopvars, tab2vars, tab3vars, tab4vars,
           outvars, histvars, sidevars >>

\* no column under classification, no side-by-side run
NoColumn == [dtype |-> "none", nunique |-> 0]
NoRuns == << >>
SideIdle ==
    /\ col = NoColumn /\ var_type = None /\ v_type = None
    /\ runs = NoRuns /\ script = << >>

\* the values the run's locals have before any handler has set them
FreshLocals ==
    /\ m_idx = 1 /\ attempt = 0 /\ success = FALSE
    /\ last_error = << >> /\ err_msg = << >>
    /\ response = NoResponse /\ tab2_errors = << >>
    /\ ai_reply = None /\ chat_error_details = << >>
    /\ generated_code = "" /\ tab4_errors = << >>
    /\ st_status = "none" /\ st_details = << >> /\ executed = FALSE
    /\ trace = << >> /\ sleeps = << >> /\ branch = "none"

\* src/app.py:25-34
Init ==
    /\ curr_df = None
    /\ df_name = ""
    /\ research_q = ""
    /\ analysis_result = None
    /\ messages = << >>
    /\ pc = "idle" /\ mode = "none"
    /\ FreshLocals
    /\ SideIdle


(***************************************************************************)
(* Tab 1: upload (src/app.py:76-92)                                        *)
(***************************************************************************)
\* uploaded_file.name != st.session_state['df_name']
IsNewFile_Always(name, current) == TRUE

IsNewFile(name, current) == name /= current

\* df_name after a read that raised: line 86 is not reached
NameAfterFailedRead_Stored(name, current) == name

NameAfterFailedRead(name, current) == current

\* The run of the script that sees `file` in the uploader.  A file whose
\* name is the stored one is not read; a new one is read, and a read that
\* raises leaves the session as it was (the except clause of line 150).
\* st_status is what the run shows: the toast of line 90, the error of
\* line 151, or only the current file's name (line 94).
UploadOf(file) ==
    /\ pc = "idle"
    /\ IF IsNewFile(file.name, df_name)
       THEN IF file.ok
            THEN /\ curr_df' = file.table
                 /\ df_name' = file.name
                 /\ analysis_result' = None
                 /\ messages' = << >>
                 /\ st_status' = "data_updated"
                 /\ UNCHANGED research_q
            ELSE /\ st_status' = "read_failed"
                 /\ df_name' = NameAfterFailedRead(file.name, df_name)
                 /\ UNCHANGED << curr_df, research_q, analysis_result,
                                 messages >>
       ELSE /\ st_status' = "current_file"
            /\ UNCHANGED session
    /\ UNCHANGED sidevars
    /\ UNCHANGED << pc, mode, loopvars, tab2vars, tab3vars, tab4vars,
                    st_details, executed, histvars >>

Upload == \E file \in Files : UploadOf(file)

(***************************************************************************)
(* Tab 2: the research question (src/app.py:162-172)                       *)
(***************************************************************************)
SetQuestion ==
    /\ pc = "idle"
    /\ curr_df /= None
    /\ \E q_input \in Questions : research_q' = q_input
    /\ st_status' = "none"
    /\ UNCHANGED sidevars
    /\ UNCHANGED << curr_df, df_name, analysis_result, messages, pc, mode,
                    loopvars, tab2vars, tab3vars, tab4vars, st_details,
                    executed, histvars >>

(***************************************************************************)
(* The retry/fallback loop (src/app.py:228-253, 348-374, 440-466)          *)
(***************************************************************************)
\* the inner loop goes round again: `continue` with an attempt left in range(3)
RetryAgain_IgnoreBranch(a, br) == a + 1 < RetryBudget

RetryAgain_OneMore(a, br) == br = "continue" /\ a + 1 < RetryBudget + 1

RetryAgain(a, br) == br = "continue" /\ a + 1 < RetryBudget

\* where the loops stand after one iteration of the inner loop at model m,
\* attempt a: ok is "no exception in the try block", br the except branch
NextPos_NoBreak(m, a, ok, br) ==
    IF ~ok /\ RetryAgain(a, br)
    THEN [pc |-> "loop", m_idx |-> m, attempt |-> a + 1]
    ELSE IF m < NumModels
    THEN [pc |-> "loop", m_idx |-> m + 1, attempt |-> 0]
    ELSE [pc |-> "exit", m_idx |-> m, attempt |-> a]

NextPos_NoFallback(m, a, ok, br) ==
    IF ok
    THEN [pc |-> "exit", m_idx |-> m, attempt |-> a]
    ELSE IF RetryAgain(a, br)
    THEN [pc |-> "loop", m_idx |-> m, attempt |-> a + 1]
    ELSE IF m < NumModels /\ br = "break"
    THEN [pc |-> "loop", m_idx |-> m + 1, attempt |-> 0]
    ELSE [pc |-> "exit", m_idx |-> m, attempt |-> a]

NextPos(m, a, ok, br) ==
    IF ok
    THEN [pc |-> "exit", m_idx |-> m, attempt |-> a]
    ELSE IF RetryAgain(a, br)
    THEN [pc |-> "loop", m_idx |-> m, attempt |-> a + 1]
    ELSE IF m < NumModels
    THEN [pc |-> "loop", m_idx |-> m + 1, attempt |-> 0]
    ELSE [pc |-> "exit", m_idx |-> m, attempt |-> a]

\* a trace-keeping variant: one entry per failed attempt
ErrorsAfter_EveryAttempt(errs, m, a, ok, br, e) ==
    IF ~ok THEN Append(errs, << candidate_models[m], e >>) ELSE errs

\* the error list after the iteration: a model whose inner loop ended
\* without success contributes f"{m_name}: {last_error}"
ErrorsAfter(errs, m, a, ok, br, e) ==
    IF ~ok /\ ~RetryAgain(a, br)
    THEN Append(errs, << candidate_models[m], e >>)
    ELSE errs

\* Whether the try block of a copy runs through on a backend outcome: Tab 2
\* only creates the model and calls generate_content (lines 233-237), Tab 3
\* and Tab 4 also read the response's .text there (lines 357, 450)
TryOk(md, out) ==
    IF md = "Analysis" THEN out.kind /= "error" ELSE out.kind = "text"

\* The part of an iteration the three copies share.  ok: the try block ran
\* through; e: the exception otherwise.
Iteration(out, ok, e) ==
    LET msg == str(e)
        br  == IF ok THEN "none" ELSE ExceptBranch(msg)
        pos == NextPos(m_idx, attempt, ok, br)
    IN  /\ trace' = Append(trace, [m |-> m_idx, a |-> attempt + 1, out |-> out])
        /\ sleeps' = IF br = "continue" THEN Append(sleeps, m_idx) ELSE sleeps
        /\ branch' = IF ok THEN branch ELSE br
        /\ success' = ok
        /\ err_msg' = IF ok THEN err_msg ELSE msg
        /\ last_error' = IF ok THEN last_error
                         ELSE IF pos.pc = "loop" /\ pos.m_idx /= m_idx
                         THEN << >>
                         ELSE e
        /\ m_idx' = pos.m_idx
        /\ attempt' = pos.attempt
        /\ pc' = IF pos.pc = "exit" THEN "done" ELSE "loop"

(***************************************************************************)
(* Tab 2: analysis (src/app.py:174-265)                                    *)
(***************************************************************************)
\* the guards in front of the two buttons: a table is loaded (lines 162,
\* 397) and the research question is not empty (lines 176, 400)
TurnReady_NoQuestion(df, q) == df /= None

TurnReady(df, q) == df /= None /\ q /= ""

ClickAnalyze ==
    /\ pc = "idle"
    /\ TurnReady(curr_df, research_q)
    /\ pc' = "loop" /\ mode' = "Analysis"
    /\ st_status' = "none"
    /\ UNCHANGED sidevars
    /\ UNCHANGED << session, loopvars, tab2vars, tab3vars, tab4vars,
                    st_details, executed, histvars >>

\* lines 255-265: st.session_state['analysis_result'] after the loop
AnalysisResultAfter_Reset(resp, old) ==
    IF resp.kind = "text" THEN resp.text ELSE None

AnalysisResultAfter(resp, old) ==
    IF resp.kind = "text" THEN resp.text ELSE old

Tab2Status(resp) ==
    IF resp.kind = "none" THEN "all_failed"
    ELSE IF resp.kind = "notext" THEN "unknown_error"
    ELSE "none"

Tab2Attempt ==
    /\ pc = "loop" /\ mode = "Analysis"
    /\ \E out \in Outcomes :
         LET ok   == TryOk("Analysis", out)
             resp == IF ok THEN [kind |-> out.kind, text |-> out.text]
                     ELSE response
             br   == IF ok THEN "none" ELSE ExceptBranch(str(out.err))
             errs == ErrorsAfter(tab2_errors, m_idx, attempt, ok, br, out.err)
         IN  /\ Iteration(out, ok, out.err)
             /\ response' = resp
             /\ tab2_errors' = errs
             /\ IF pc' = "done"
                THEN /\ analysis_result' =
                            AnalysisResultAfter(resp, analysis_result)
                     /\ st_status' = Tab2Status(resp)
                     /\ st_details' = IF resp.kind = "none" THEN errs ELSE << >>
                ELSE UNCHANGED << analysis_result, st_status, st_details >>
    /\ UNCHANGED sidevars
    /\ UNCHANGED << curr_df, df_name, research_q, messages, mode,
                    tab3vars, tab4vars, executed >>

(***************************************************************************)
(* Tab 3: chat (src/app.py:322-385)                                        *)
(***************************************************************************)
\* line 324: the prompt is appended to the transcript before the loop
WithUserEntry_Skip(msgs, prompt) == msgs

WithUserEntry(msgs, prompt) ==
    Append(msgs, [role |-> "user", content |-> prompt])

SubmitChat ==
    /\ pc = "idle"
    /\ Len(messages) + 2 <= MaxMsgs
    /\ \E prompt \in Prompts :
         messages' = WithUserEntry(messages, prompt)
    /\ pc' = "loop" /\ mode' = "Chat"
    /\ st_status' = "none"
    /\ UNCHANGED sidevars
    /\ UNCHANGED << curr_df, df_name, research_q, analysis_result, loopvars,
                    tab2vars, tab3vars, tab4vars, st_details, executed,
                    histvars >>

\* lines 376-382: st.session_state['messages'] after the loop
MessagesAfter(reply, msgs) ==
    IF Truthy(reply)
    THEN Append(msgs, [role |-> "assistant", content |-> reply])
    ELSE msgs

Tab3Attempt ==
    /\ pc = "loop" /\ mode = "Chat"
    /\ \E out \in Outcomes :
         LET ok    == TryOk("Chat", out)
             reply == IF ok THEN out.text ELSE ai_reply
             br    == IF ok THEN "none" ELSE ExceptBranch(str(out.err))
             errs  == ErrorsAfter(chat_error_details, m_idx, attempt, ok, br,
                                  out.err)
         IN  /\ Iteration(out, ok, out.err)
             /\ ai_reply' = reply
             /\ chat_error_details' = errs
             /\ IF pc' = "done"
                THEN /\ messages' = MessagesAfter(reply, messages)
                     /\ st_status' = IF Truthy(reply) THEN "none"
                                     ELSE "all_failed"
                     /\ st_details' = IF Truthy(reply) THEN << >> ELSE errs
                ELSE UNCHANGED << messages, st_status, st_details >>
    /\ UNCHANGED sidevars
    /\ UNCHANGED << curr_df, df_name, research_q, analysis_result, mode,
                    tab2vars, tab4vars, executed >>

(***************************************************************************)
(* Tab 4: code generation and execution (src/app.py:397-494)               *)
(***************************************************************************)
ClickRunPython ==
    /\ pc = "idle"
    /\ TurnReady(curr_df, research_q)
    /\ pc' = "loop" /\ mode' = "CodeGen"
    /\ st_status' = "none"
    /\ UNCHANGED sidevars
    /\ UNCHANGED << session, loopvars, tab2vars, tab3vars, tab4vars,
                    st_details, executed, histvars >>

\* lines 468-476: the generated code is run unless `not generated_code`
ExecGuard_Always(code) == TRUE

ExecGuard(code) == Truthy(code)

Tab4Attempt ==
    /\ pc = "loop" /\ mode = "CodeGen"
    /\ \E out \in Outcomes :
         LET ok   == TryOk("CodeGen", out)
             code == IF ok THEN out.text ELSE generated_code
             br   == IF ok THEN "none" ELSE ExceptBranch(str(out.err))
             errs == ErrorsAfter(tab4_errors, m_idx, attempt, ok, br, out.err)
         IN  /\ Iteration(out, ok, out.err)
             /\ generated_code' = code
             /\ tab4_errors' = errs
             /\ IF pc' = "done"
                THEN IF ~ExecGuard(code)
                     THEN /\ st_status' = "codegen_failed"
                          /\ st_details' = errs
                          /\ executed' = FALSE
                     ELSE /\ executed' = TRUE
                          /\ st_details' = << >>
                          /\ \E raised \in BOOLEAN :
                               st_status' = IF raised THEN "exec_error"
                                            ELSE "none"
                ELSE UNCHANGED << st_status, st_details, executed >>
    /\ UNCHANGED sidevars
    /\ UNCHANGED << session, mode, tab2vars, tab3vars >>

(***************************************************************************)
(* The end of a run: the script's locals are gone                          *)
(***************************************************************************)
\* where the next run's loops start, whatever model m the last run ended
\* on: `for m_name in candidate_models` / `for attempt in range(3)` iterate
\* from the first model and the first attempt
FirstPos_Resume(m) == [m_idx |-> m, attempt |-> 0]

FirstPos(m) == [m_idx |-> 1, attempt |-> 0]

EndRun ==
    /\ pc = "done"
    /\ pc' = "idle" /\ mode' = "none"
    /\ m_idx' = FirstPos(m_idx).m_idx /\ attempt' = FirstPos(m_idx).attempt
    /\ success' = FALSE
    /\ last_error' = << >> /\ err_msg' = << >>
    /\ response' = NoResponse /\ tab2_errors' = << >>
    /\ ai_reply' = None /\ chat_error_details' = << >>
    /\ generated_code' = "" /\ tab4_errors' = << >>
    /\ st_status' = "none" /\ st_details' = << >> /\ executed' = FALSE
    /\ trace' = << >> /\ sleeps' = << >> /\ branch' = "none"
    /\ UNCHANGED sidevars
    /\ UNCHANGED session

Next ==
    \/ Upload
    \/ SetQuestion
    \/ ClickAnalyze
    \/ Tab2Attempt
    \/ SubmitChat
    \/ Tab3Attempt
    \/ ClickRunPython
    \/ Tab4Attempt
    \/ EndRun

Spec == Init /\ [][Next]_vars

\* Every backend call returns: a loop that can make its next iteration
\* does make it.
FairSpec ==
    /\ Spec
    /\ WF_vars(Tab2Attempt)
    /\ WF_vars(Tab3Attempt)
    /\ WF_vars(Tab4Attempt)


(***************************************************************************)
(* The except clause on its own (src/app.py:238-246, 360-368, 453-460):    *)
(* the classifier applied to every message of up to MaxWords words, at     *)
(* every attempt of the first model.                                       *)
(***************************************************************************)
RECURSIVE WordSeqs(_)
WordSeqs(n) ==
    IF n = 0 THEN { << >> }
    ELSE LET shorter == WordSeqs(n - 1)
         IN  shorter \cup { Append(e, w) : e \in shorter, w \in Words }

Exceptions == WordSeqs(MaxWords) \ { << >> }

InitClassify ==
    /\ curr_df = None /\ df_name = "" /\ research_q = ""
    /\ analysis_result = None /\ messages = << >>
    /\ pc = "except" /\ mode = "none"
    /\ m_idx = 1 /\ attempt \in 0..(RetryBudget - 1) /\ success = FALSE
    /\ last_error \in Exceptions /\ err_msg = str(last_error)
    /\ response = NoResponse /\ tab2_errors = << >>
    /\ ai_reply = None /\ chat_error_details = << >>
    /\ generated_code = "" /\ tab4_errors = << >>
    /\ st_status = "none" /\ st_details = << >> /\ executed = FALSE
    /\ trace = << >> /\ sleeps = << >> /\ branch = "none"
    /\ SideIdle

Classify ==
    /\ pc = "except"
    /\ LET br  == ExceptBranch(err_msg)
           pos == NextPos(m_idx, attempt, FALSE, br)
       IN  /\ branch' = br
           /\ sleeps' = IF br = "continue" THEN Append(sleeps, m_idx)
                        ELSE sleeps
           /\ m_idx' = pos.m_idx
           /\ attempt' = pos.attempt
    /\ pc' = "classified"
    /\ UNCHANGED sidevars
    /\ UNCHANGED << session, mode, success, last_error, err_msg, tab2vars,
                    tab3vars, tab4vars, outvars, trace >>

SpecClassify == InitClassify /\ [][Classify]_vars

(***************************************************************************)
(* The two variable classifiers, on every column a loaded table may hold   *)
(* (src/app.py:97-113 and 182-190)                                         *)
(***************************************************************************)
\* `n_unique <= 15`
OrdinalMax == 15
\* distinct values counted in a column (series.nunique())
MaxUnique == 17

\* dtypes pd.read_csv / pd.read_excel give a column
DTypes == { "object", "string", "int64", "float64", "bool", "datetime64" }
Columns == [dtype : DTypes, nunique : 0..MaxUnique]

\* pd.api.types
is_string_dtype(d) == d \in { "object", "string" }
is_object_dtype(d) == d = "object"
is_numeric_dtype(d) == d \in { "int64", "float64", "bool" }

\* Tab 1, lines 97-113; the labels stand for the source's
\* "名義變項" / "次序變項" / "連續變項" / "未知"
detect_variable_type(series) ==
    IF is_string_dtype(series.dtype) \/ is_object_dtype(series.dtype)
    THEN "nominal"
    ELSE IF is_numeric_dtype(series.dtype)
    THEN IF series.nunique <= OrdinalMax THEN "ordinal" ELSE "continuous"
    ELSE "unknown"

\* Tab 2, lines 184-189: v_type of the prompt builder
PromptVarType(series) ==
    IF is_numeric_dtype(series.dtype)
    THEN IF series.nunique <= OrdinalMax THEN "ordinal" ELSE "continuous"
    ELSE "nominal"

InitVarType ==
    /\ curr_df = "t2" /\ df_name = "b.xlsx" /\ research_q = "q"
    /\ analysis_result = None /\ messages = << >>
    /\ pc = "column" /\ mode = "none"
    /\ FreshLocals
    /\ col \in Columns /\ var_type = None /\ v_type = None
    /\ runs = NoRuns /\ script = << >>

\* Tab 1 fills the "推測變項類型" cell of the column
Tab1Detect ==
    /\ pc = "column" /\ var_type = None
    /\ var_type' = detect_variable_type(col)
    /\ UNCHANGED << session, pc, mode, loopvars, tab2vars, tab3vars, tab4vars,
                    outvars, histvars, col, v_type, runs, script >>

\* Tab 2 writes the column's line of the prompt
Tab2Describe ==
    /\ pc = "column" /\ v_type = None
    /\ v_type' = PromptVarType(col)
    /\ UNCHANGED << session, pc, mode, loopvars, tab2vars, tab3vars, tab4vars,
                    outvars, histvars, col, var_type, runs, script >>

NextVarType == Tab1Detect \/ Tab2Describe

SpecVarType == InitVarType /\ [][NextVarType]_vars

(***************************************************************************)
(* The three copies of the loop, run side by side on one script of backend *)
(* outcomes: the k-th call of every copy gets the k-th outcome             *)
(* (src/app.py:228-249, 350-370, 441-462)                                  *)
(***************************************************************************)
Modes == { "Analysis", "Chat", "CodeGen" }

\* a copy about to make its first call
StartRun ==
    [pc |-> "loop", m_idx |-> FirstPos(1).m_idx,
     attempt |-> FirstPos(1).attempt, success |-> FALSE, calls |-> << >>]

\* one iteration of copy md at position r on outcome out
RunStep(md, r, out) ==
    LET ok  == TryOk(md, out)
        br  == IF ok THEN "none" ELSE ExceptBranch(str(out.err))
        pos == NextPos(r.m_idx, r.attempt, ok, br)
    IN  [pc |-> IF pos.pc = "exit" THEN "done" ELSE "loop",
         m_idx |-> pos.m_idx,
         attempt |-> pos.attempt,
         success |-> ok,
         calls |-> Append(r.calls, << r.m_idx, r.attempt + 1 >>)]

InitModes ==
    /\ curr_df = "t1" /\ df_name = "a.csv" /\ research_q = "q"
    /\ analysis_result = None /\ messages = << >>
    /\ pc = "lockstep" /\ mode = "none"
    /\ FreshLocals
    /\ col = NoColumn /\ var_type = None /\ v_type = None
    /\ runs = [md \in Modes |-> StartRun]
    /\ script = << >>

LockStep ==
    /\ pc = "lockstep"
    /\ \E md \in Modes : runs[md].pc = "loop"
    /\ \E out \in Outcomes :
         /\ script' = Append(script, out)
         /\ runs' = [md \in Modes |->
                        IF runs[md].pc = "loop"
                        THEN RunStep(md, runs[md], out)
                        ELSE runs[md]]
    /\ UNCHANGED << session, pc, mode, loopvars, tab2vars, tab3vars, tab4vars,
                    outvars, histvars, colvars >>

SpecModes == InitModes /\ [][LockStep]_vars


(***************************************************************************)
(* Vocabulary of the properties                                            *)
(***************************************************************************)
LowerChar(c) == CASE c = "Q" -> "q" [] c = "L" -> "l" [] OTHER -> c

LowerStr(s) == [i \in 1..Len(s) |-> LowerChar(s[i])]

\* the quota/rate-limit signature of the specification: an HTTP 429 code,
\* the word "quota" in any letter case, or the word "limit"
QuotaSignature(msg) ==
    \/ Contains(msg, WordChars("429"))
    \/ Contains(LowerStr(msg), WordChars("quota"))
    \/ Contains(msg, WordChars("limit"))

Last(s) == s[Len(s)]

\* the outcome classes of an attempt record
IsSuccess(r) == r.out.kind = "text"
IsTransient(r) == ~IsSuccess(r) /\ QuotaSignature(str(r.out.err))
IsFatal(r) == ~IsSuccess(r) /\ ~QuotaSignature(str(r.out.err))

NoSuccess == \A i \in 1..Len(trace) : ~IsSuccess(trace[i])

\* the backend calls made on the m-th model, in order
CallsOf(m) == LET OnModel(r) == r.m = m IN SelectSeq(trace, OnModel)

\* the orchestration is through with model m
PastModel(m) == pc = "done" \/ m_idx > m

\* the text the loop leaves for its turn handler
ResultText ==
    CASE mode = "Analysis" ->
            IF response.kind = "text" THEN response.text ELSE None
      [] mode = "Chat" -> ai_reply
      [] mode = "CodeGen" -> generated_code
      [] OTHER -> None

\* the diagnostics the loop collected
Diagnostics ==
    CASE mode = "Analysis" -> tab2_errors
      [] mode = "Chat" -> chat_error_details
      [] mode = "CodeGen" -> tab4_errors
      [] OTHER -> << >>

(***************************************************************************)
(* C1.  Short-circuit on success: a backend call that returns text is the  *)
(* last call of its orchestration (no later attempt on the same model, no  *)
(* call on a later model), the loop is left with success set, and the text *)
(* handed on is that call's text.  All three modes.                        *)
(***************************************************************************)
C1_ShortCircuitOnSuccess ==
    \A i \in 1..Len(trace) :
        IsSuccess(trace[i]) =>
            /\ trace[i].a <= RetryBudget
            /\ i = Len(trace)
            /\ pc = "done"
            /\ success
            /\ ResultText = trace[i].out.text

\* a success at the second attempt of the first model, with an attempt and
\* a model still unused
C1_Witness ==
    /\ pc = "done"
    /\ Len(trace) = 2
    /\ IsTransient(trace[1])
    /\ IsSuccess(trace[2])
    /\ trace[2].m = 1 /\ trace[2].a = 2
    /\ trace[2].m < NumModels /\ trace[2].a < RetryBudget
    /\ ResultText = "X"

(***************************************************************************)
(* C2.  Fatal short-circuit: after a call that failed with an error not    *)
(* matching the quota/rate-limit signature, no later call is made on the   *)
(* same model; the next call, if there is one, is attempt 1 of the next    *)
(* model in registry order.                                                *)
(***************************************************************************)
C2_FatalShortCircuit ==
    \A i \in 1..Len(trace) :
        IsFatal(trace[i]) =>
            /\ \A j \in (i + 1)..Len(trace) : trace[j].m > trace[i].m
            /\ i < Len(trace) =>
                  /\ trace[i + 1].m = trace[i].m + 1
                  /\ trace[i + 1].a = 1
            /\ i = Len(trace) =>
                  \/ pc = "done"
                  \/ pc = "loop" /\ m_idx = trace[i].m + 1 /\ attempt = 0

\* a fatal failure at attempt 2 of a model (one attempt of the budget
\* unused), followed by a call
C2_Witness ==
    \E i \in 1..Len(trace) :
        /\ IsFatal(trace[i])
        /\ trace[i].out.kind = "error"
        /\ trace[i].a = 2
        /\ i < Len(trace)

C4_ExhaustionCompleteness ==
    (pc = "done" /\ NoSuccess) =>
        /\ ~success
        /\ ~Truthy(ResultText)
        /\ { trace[i].m : i \in 1..Len(trace) } = 1..NumModels
        /\ Len(Diagnostics) = NumModels
        /\ \A k \in 1..Len(Diagnostics) :
               Diagnostics[k][1] = candidate_models[k]

(***************************************************************************)
(* C5.  Fallback after budget exhaustion: a transient failure at attempt   *)
(* RetryBudget of a model closes RetryBudget transient attempts of that    *)
(* model; the orchestration then stands at attempt 1 of the next model     *)
(* (or, after the last model, ends without success); and if that next call *)
(* returns text X, it is the last call and the result is X.                *)
(***************************************************************************)
C5_FallbackAfterBudget ==
    \A i \in 1..Len(trace) :
        (IsTransient(trace[i]) /\ trace[i].a = RetryBudget) =>
            /\ i >= RetryBudget
            /\ \A k \in 1..RetryBudget :
                   LET r == trace[i - RetryBudget + k]
                   IN  r.m = trace[i].m /\ r.a = k /\ IsTransient(r)
            /\ IF trace[i].m < NumModels
               THEN IF i = Len(trace)
                    THEN pc = "loop" /\ m_idx = trace[i].m + 1 /\ attempt = 0
                    ELSE /\ trace[i + 1].m = trace[i].m + 1
                         /\ trace[i + 1].a = 1
                         /\ IsSuccess(trace[i + 1]) =>
                               /\ Len(trace) = i + 1
                               /\ pc = "done"
                               /\ success
                               /\ ResultText = trace[i + 1].out.text
               ELSE i = Len(trace) /\ pc = "done" /\ ~success

\* Scenario A with the code's budget: M1 fails transiently RetryBudget
\* times, M2 returns "X" at its first attempt
C5_Witness ==
    /\ pc = "done"
    /\ Len(trace) = RetryBudget + 1
    /\ \A k \in 1..RetryBudget :
           trace[k].m = 1 /\ trace[k].a = k /\ IsTransient(trace[k])
    /\ Last(trace).m = 2 /\ Last(trace).a = 1
    /\ IsSuccess(Last(trace)) /\ Last(trace).out.text = "X"
    /\ success /\ ResultText = "X"

(***************************************************************************)
(* C6.  Fingerprint invalidation: every run that reads an uploaded file    *)
(* successfully, whatever turns came before, either sees a name different  *)
(* from the stored one and then stores the file's table and name and       *)
(* clears analysis_result and messages, or sees the stored name and then   *)
(* leaves the table, the name, analysis_result and messages as they were.  *)
(***************************************************************************)
C6_FingerprintInvalidation ==
    [][ \A file \in Files :
          (file.ok /\ UploadOf(file)) =>
              IF file.name /= df_name
              THEN /\ curr_df' = file.table
                   /\ df_name' = file.name
                   /\ analysis_result' = None
                   /\ messages' = << >>
              ELSE UNCHANGED << curr_df, df_name, analysis_result, messages >>
      ]_vars

\* a file with the stored name has just been uploaded over a session that
\* holds an analysis result and an answered chat turn, and both are kept
C6_Witness ==
    /\ pc = "idle"
    /\ st_status = "current_file"
    /\ analysis_result = "X"
    /\ Len(messages) >= 2

(***************************************************************************)
(* C7.  Chat transcript rule, as claimed: when a chat run has left the     *)
(* loop, the transcript ends with the turn's user entry followed by one    *)
(* assistant entry holding the returned text if a backend call returned    *)
(* text, and with the user entry alone if none did.                        *)
(***************************************************************************)
C7_ChatTranscriptRule ==
    (pc = "done" /\ mode = "Chat") =>
        LET n == Len(messages)
        IN  IF NoSuccess
            THEN n >= 1 /\ messages[n].role = "user"
            ELSE /\ n >= 2
                 /\ messages[n - 1].role = "user"
                 /\ messages[n] =
                      [role |-> "assistant", content |-> ResultText]

(***************************************************************************)
(* C8.  Analysis result rule: the step that ends an analysis run's loop    *)
(* sets analysis_result to the returned text when the last call returned   *)
(* text, and when the loop ended without success it leaves analysis_result *)
(* as it was and shows the collected diagnostics; no earlier step of the   *)
(* run changes analysis_result.                                            *)
(***************************************************************************)
C8_AnalysisResultRule ==
    [][ (mode = "Analysis" /\ pc = "loop") =>
          IF pc' = "done"
          THEN /\ IsSuccess(Last(trace')) =>
                     analysis_result' = Last(trace').out.text
               /\ ~success' =>
                     /\ analysis_result' = analysis_result
                     /\ st_status' = "all_failed"
                     /\ st_details' = tab2_errors'
                     /\ tab2_errors' /= << >>
          ELSE analysis_result' = analysis_result
      ]_vars

\* an analysis run that exhausted the registry over a cached result "X"
C8_Witness ==
    /\ pc = "done"
    /\ mode = "Analysis"
    /\ ~success
    /\ analysis_result = "X"
    /\ st_status = "all_failed"
    /\ Len(st_details) = NumModels

(***************************************************************************)
(* C9.  Empty-string success, as claimed: a call that returns the empty    *)
(* string is the last call of the orchestration and the run does not       *)
(* handle it as a failure: no failure report, the assistant entry is       *)
(* appended (Chat), analysis_result is set (Analysis).                     *)
(***************************************************************************)
C9_EmptyStringSuccess ==
    \A i \in 1..Len(trace) :
        (IsSuccess(trace[i]) /\ trace[i].out.text = "") =>
            /\ i = Len(trace)
            /\ pc = "done"
            /\ success
            /\ st_status \notin { "all_failed", "codegen_failed" }
            /\ mode = "Chat" =>
                  /\ messages /= << >>
                  /\ Last(messages) = [role |-> "assistant", content |-> ""]
            /\ mode = "Analysis" => analysis_result = ""

(***************************************************************************)
(* C10.  Failure classification, as claimed: the except clause retries     *)
(* (takes its `continue` branch) exactly when the message matches the      *)
(* quota/rate-limit signature: a 429 code, "quota" in any letter case, or  *)
(* "limit".                                                                *)
(***************************************************************************)
C10_FailureClassification ==
    pc = "classified" => (branch = "continue" <=> QuotaSignature(err_msg))

(***************************************************************************)
(* C11.  Backend failure is data, as claimed: no failure of a backend call *)
(* (creating the model, generating, reading the response text) leaves the  *)
(* loop as an exception: a run never ends in the handler's catch-all, and  *)
(* a run without a text-returning call ends as an exhaustion with every    *)
(* model's failure recorded.  All three modes.                             *)
(***************************************************************************)
C11_BackendFailureIsData ==
    pc = "done" =>
        /\ st_status /= "unknown_error"
        /\ NoSuccess =>
              /\ ~success
              /\ st_status \in { "all_failed", "codegen_failed" }
              /\ \A m \in 1..NumModels :
                    \E k \in 1..Len(Diagnostics) :
                        Diagnostics[k][1] = candidate_models[m]

\* the error a failed call raised inside the try block
ErrorOf(r) == r.out.err

SleepsOn(m) == LET OnModel(x) == x = m IN Len(SelectSeq(sleeps, OnModel))

(***************************************************************************)
(* C13.  Backoff bound, as claimed: the orchestration sleeps at most       *)
(* RetryBudget - 1 times on any one model (only between two attempts on    *)
(* the same model, never after the last budgeted attempt).                 *)
(***************************************************************************)
C13_BackoffBound ==
    \A m \in 1..NumModels : SleepsOn(m) <= RetryBudget - 1

(***************************************************************************)
(* C15.  Turn preconditions: an Analysis or CodeGen run is in progress     *)
(* only with a table loaded and a non-empty research question, and cannot  *)
(* be started otherwise; a Chat run can be started from every idle state,  *)
(* with or without a table (MaxMsgs only bounds the transcript).           *)
(***************************************************************************)
C15_TurnPreconditions ==
    /\ (pc \in { "loop", "done" } /\ mode \in { "Analysis", "CodeGen" }) =>
            (curr_df /= None /\ research_q /= "")
    /\ (pc = "idle" /\ (curr_df = None \/ research_q = "")) =>
            (~ENABLED ClickAnalyze /\ ~ENABLED ClickRunPython)
    /\ (pc = "idle" /\ Len(messages) + 2 <= MaxMsgs) => ENABLED SubmitChat
    /\ (mode = "Chat" /\ pc = "loop" /\ trace = << >>) =>
            (messages /= << >> /\ Last(messages).role = "user")

\* a CodeGen run whose loop has made a call, with the table and the
\* question in place
C15_Witness ==
    /\ pc = "loop"
    /\ mode = "CodeGen"
    /\ trace /= << >>
    /\ curr_df /= None
    /\ research_q = "q"

(***************************************************************************)
(* C16.  CodeGen failure rule: a CodeGen run whose loop ends without       *)
(* success runs no code and reports the failure; code is run only by the   *)
(* step in which a call returned text, and it is that call's text; the run *)
(* writes nothing to the session state, and when the run ends neither the  *)
(* generated code nor its result is kept.                                  *)
(***************************************************************************)
C16_CodeGenFailureRule ==
    [][ /\ executed' =>
              /\ mode = "CodeGen" /\ pc = "loop" /\ pc' = "done"
              /\ success'
              /\ IsSuccess(Last(trace'))
              /\ generated_code' = Last(trace').out.text
        /\ (mode = "CodeGen" /\ pc = "loop") =>
              /\ session' = session
              /\ (pc' = "done" /\ ~success') =>
                    /\ ~executed'
                    /\ generated_code' = ""
                    /\ st_status' = "codegen_failed"
                    /\ st_details' = tab4_errors'
        /\ (mode = "CodeGen" /\ pc = "done") =>
              /\ session' = session
              /\ generated_code' = ""
              /\ ~executed'
      ]_vars

\* a CodeGen run that exhausted the registry: nothing was run
C16_Witness ==
    /\ pc = "done"
    /\ mode = "CodeGen"
    /\ ~success
    /\ NoSuccess
    /\ ~executed
    /\ st_status = "codegen_failed"

(***************************************************************************)
(* C17.  Every orchestration is a full re-run: whatever earlier turns left *)
(* in the session, a run's loop starts with empty locals at the first      *)
(* model, first attempt; its calls walk the registry in order without      *)
(* skipping a model (same model next attempt, or next model first          *)
(* attempt); and no run ends without having called the backend.            *)
(***************************************************************************)
C17_FullReRun ==
    /\ (pc = "loop" /\ trace = << >>) =>
            /\ m_idx = 1 /\ attempt = 0 /\ ~success
            /\ Diagnostics = << >>
            /\ ~Truthy(ResultText)
    /\ trace /= << >> => (trace[1].m = 1 /\ trace[1].a = 1)
    /\ \A i \in 1..(Len(trace) - 1) :
          \/ trace[i + 1].m = trace[i].m /\ trace[i + 1].a = trace[i].a + 1
          \/ trace[i + 1].m = trace[i].m + 1 /\ trace[i + 1].a = 1
    /\ pc = "done" => trace /= << >>

\* an Analysis run started over the cached result "X" of an earlier
\* successful run: its first call is again on the first model
C17_Witness ==
    /\ pc = "loop"
    /\ mode = "Analysis"
    /\ analysis_result = "X"
    /\ Len(trace) = 1
    /\ trace[1].m = 1 /\ trace[1].a = 1
    /\ ~IsSuccess(trace[1])

\* the type the classification rule gives a column
RuleType(c) ==
    IF ~is_numeric_dtype(c.dtype) THEN "nominal"
    ELSE IF c.nunique <= 15 THEN "ordinal"
    ELSE "continuous"

(***************************************************************************)
(* C18.  Variable classification, as claimed: a non-numeric column is      *)
(* nominal, a numeric column with at most 15 distinct values is ordinal, a *)
(* numeric column with more is continuous, and both classifiers (the Tab 1 *)
(* table and the Tab 2 prompt builder) give this type for every column.    *)
(***************************************************************************)
C18_VariableClassification ==
    /\ var_type /= None => var_type = RuleType(col)
    /\ v_type /= None => v_type = RuleType(col)

(***************************************************************************)
(* C19.  Mode-agnostic orchestration, as claimed: run on the same script   *)
(* of backend outcomes, the Analysis, Chat and CodeGen loops make the same *)
(* sequence of (model, attempt) calls and are at the same point with the   *)
(* same success flag.                                                      *)
(***************************************************************************)
C19_ModeAgnostic ==
    pc = "lockstep" => \A a, b \in Modes : runs[a] = runs[b]

\* the most backend calls one orchestration can make
MaxCalls == NumModels * RetryBudget

(***************************************************************************)
(* C20.  Bounded termination: provided every backend call returns, every   *)
(* orchestration that has started ends (with success or exhaustion), and   *)
(* it never makes more than |registry| * RetryBudget backend calls.        *)
(***************************************************************************)
C20_BoundedTermination ==
    /\ [](Len(trace) <= MaxCalls)
    /\ (pc = "loop") ~> (pc = "done")

\* a run that ended only after using the whole budget of every model
C20_Witness ==
    /\ pc = "done"
    /\ ~success
    /\ Len(trace) = MaxCalls

\* every assistant entry of a transcript directly follows a user entry
WellShaped(msgs) ==
    \A i \in 1..Len(msgs) :
        msgs[i].role = "assistant" => (i > 1 /\ msgs[i - 1].role = "user")

\* msgs2 is msgs with one entry appended
GrowsByOne(msgs, msgs2) ==
    /\ Len(msgs2) = Len(msgs) + 1
    /\ SubSeq(msgs2, 1, Len(msgs)) = msgs

(***************************************************************************)
(* C21.  Conversation shape: in every reachable state every assistant      *)
(* entry of messages directly follows a user entry (so the first entry is  *)
(* a user entry and no two assistant entries are adjacent), and a step     *)
(* changes messages only by appending one entry, or by emptying it when an *)
(* upload stores a table under a new file name.                            *)
(***************************************************************************)
C21_ConversationShape ==
    /\ WellShaped(messages)
    /\ [][ /\ WellShaped(messages')
           /\ \/ messages' = messages
              \/ GrowsByOne(messages, messages')
              \/ /\ messages' = << >>
                 /\ df_name' /= df_name
                 /\ curr_df' /= None
                 /\ st_status' = "data_updated"
       ]_vars

\* a transcript after a failed chat turn and a successful one: two user
\* entries, then the assistant's reply
C21_Witness ==
    /\ pc = "done"
    /\ mode = "Chat"
    /\ Len(messages) = 3
    /\ messages[1].role = "user"
    /\ messages[2].role = "user"
    /\ messages[3].role = "assistant"

(***************************************************************************)
(* C22.  Failed ingestion is atomic: an upload step whose file has a new   *)
(* name and cannot be read reports the failure and leaves curr_df,         *)
(* df_name, analysis_result and messages (the whole session) as they were; *)
(* a file name is stored exactly when a table is.                          *)
(***************************************************************************)
C22_FailedIngestionAtomic ==
    /\ (df_name = "") <=> (curr_df = None)
    /\ [][ /\ \A file \in Files :
                (UploadOf(file) /\ IsNewFile(file.name, df_name) /\ ~file.ok)
                    => (session' = session /\ st_status' = "read_failed")
           /\ st_status' = "read_failed" => session' = session
           /\ (df_name' = "") <=> (curr_df' = None)
       ]_vars

\* a failed read of a new file over a session holding a table, a cached
\* analysis and a transcript
C22_Witness ==
    /\ pc = "idle"
    /\ st_status = "read_failed"
    /\ df_name = "a.csv"
    /\ curr_df /= None
    /\ analysis_result = "X"
    /\ messages /= << >>

====
